---------------------------- MODULE Spec2Model ----------------------------
(***************************************************************************)
(* A model of german_tts.py: the EnterKeyTextEdit key routing, the         *)
(* AnimatedButton feedback and the TextToSpeechApp.text_to_speech handler  *)
(* with its two one-shot timers, run by a single-threaded Qt event loop.   *)
(*                                                                         *)
(* One event handler runs at a time: while pc # "ready" only the steps of  *)
(* the running handler are enabled.  Time (milliseconds) advances only     *)
(* between handlers, from one due timer to the next; a one-shot timer      *)
(* fires when its remaining time is 0.                                     *)
(***************************************************************************)
EXTENDS Integers, Sequences, FiniteSets

\* ------------------------------------------------------------- bounds
\* longest contents of the text box that is explored
MaxLen == 2
\* number of requests that hold a scratch file or a timer at the same time
MaxReq == 2

\* ---------------------------------------------------------- constants
\* QTimer.singleShot(1500, lambda: os.remove(temp_path))
DeleteDelayMs == 1500
\* int(... .get_length() * 1000): milliseconds per second, here applied to
\* a length kept in microseconds
UsPerMs == 1000

\* decoded lengths (microseconds) the synthesized audio can have: one shorter
\* and one longer than the fixed deletion delay
AudioLengthsUs == {500000, 2500000}

Whitespace == {" ", "\n"}
Keys == {"Return", "Enter", "a", "Backspace"}
Modifiers == {"Shift"}

\* the gTTS object before it is constructed
NoTts == [text |-> <<>>, lang |-> "", slow |-> FALSE]

\* no key event is being handled
NoEvent == [key |-> "none", mods |-> {}]

\* the mixer plays nothing
NoMusic == [req |-> 0, left |-> 0]

NoLocals ==
    [text |-> <<>>, slow_checked |-> FALSE, tts |-> NoTts, temp_path |-> 0,
     saved_us |-> 0, duration_ms |-> 0, raising |-> FALSE]

VARIABLES
    text_edit,      \* contents of self.text_edit (a sequence of Chars)
    slow_checkbox,  \* self.slow_checkbox.isChecked()
    button_disabled,\* not self.button.isEnabled()
    animating,      \* self.button.animation is Running
    style,          \* style sheet of the button: "default" or "pulse"
    status,         \* text of self.status_label: "" or "speaking"
    pc,             \* position of the running handler; "ready" = event loop
    locals,         \* locals of the running text_to_speech call
    trace,          \* effects of the running text_to_speech call, in order
    files,          \* scratch files that exist
    music,          \* pygame.mixer.music: the file played and what is left of it (us)
    timers,         \* pending QTimer.singleShot tasks
    delSched,       \* per existing scratch file: how many deletions were scheduled
    event           \* the key event that keyPressEvent is handling

vars == <<text_edit, slow_checkbox, button_disabled, animating, style, status,
          pc, locals, trace, files, music, timers, delSched, event>>

widgets == <<button_disabled, animating, style, status>>

\* ------------------------------------------------------------ helpers
Min(S) == CHOOSE x \in S : \A y \in S : x <= y

RECURSIVE LStrip(_)
LStrip(s) ==
    IF s = <<>> THEN <<>>
    ELSE IF Head(s) \in Whitespace THEN LStrip(Tail(s)) ELSE s

RECURSIVE RStrip(_)
RStrip(s) ==
    IF s = <<>> THEN <<>>
    ELSE IF s[Len(s)] \in Whitespace THEN RStrip(SubSeq(s, 1, Len(s) - 1)) ELSE s

\* the text taken as typed, without .strip()
NoStrip(s) == s

\* str.strip(): whitespace removed at both ends
Strip(s) == RStrip(LStrip(s))

\* self.insertPlainText('\n') with the cursor at the end of the text
InsertNewline(s) == Append(s, "\n")

\* QTextEdit.keyPressEvent for the keys of the model (cursor at the end)
DefaultKey(s, key) ==
    CASE key = "a" -> Append(s, "a")
      [] key \in {"Return", "Enter"} -> Append(s, "\n")
      [] key = "Backspace" -> IF s = <<>> THEN s ELSE SubSeq(s, 1, Len(s) - 1)
      [] OTHER -> s

\* duration_ms = int(Sound(temp_path).get_length() * 1000)
DurationMs(lenUs) == lenUs \div UsPerMs

\* the file a deletion task removes: temp_path of the call that scheduled it
RemoveTarget(t) == t.req

DoneTimer(r, d) == [kind |-> "done", req |-> r, delay |-> d, left |-> d]
RemoveTimer(r) ==
    [kind |-> "remove", req |-> r, delay |-> DeleteDelayMs, left |-> DeleteDelayMs]

\* ---------------------------------------------------------------- Init
Init ==
    /\ text_edit = <<>>
    /\ slow_checkbox = TRUE
    /\ button_disabled = FALSE
    /\ animating = FALSE
    /\ style = "default"
    /\ status = ""
    /\ pc = "ready"
    /\ locals = NoLocals
    /\ trace = <<>>
    /\ files = {}
    /\ music = NoMusic
    /\ timers = {}
    /\ delSched = [f \in 1..MaxReq |-> 0]
    /\ event = NoEvent

\* --------------------------------------------------- text_to_speech entry
\* lines 150-151: the locals read from the widgets when the handler is entered
EnterHandler ==
    /\ pc' = "check"
    /\ locals' = [NoLocals EXCEPT !.text = Strip(text_edit),
                                  !.slow_checked = slow_checkbox]
    /\ trace' = <<>>

\* the names taken by a scratch file, a pending timer or the playing music
InUse == files \cup {t.req : t \in timers} \cup {music.req}

\* tempfile.NamedTemporaryFile picks a name that no file has
FreshPath == Min((1..MaxReq) \ InUse)

\* the model explores at most MaxReq requests alive at a time
WithinBound == Strip(text_edit) = <<>> \/ (1..MaxReq) \ InUse # {}

\* self.button.clicked.connect(self.text_to_speech): a disabled QPushButton
\* emits no clicked signal
ClickSpeak ==
    /\ pc = "ready"
    /\ ~button_disabled
    /\ WithinBound
    /\ EnterHandler
    /\ UNCHANGED <<text_edit, slow_checkbox, widgets, files, music, timers, delSched, event>>

\* a key event is delivered to the text box, which is never disabled
KeyEvent(key, mods) ==
    /\ pc = "ready"
    /\ IF key \in {"Return", "Enter"} /\ "Shift" \notin mods
       THEN WithinBound
       ELSE Len(DefaultKey(text_edit, key)) <= MaxLen
    /\ pc' = "key"
    /\ event' = [key |-> key, mods |-> mods]
    /\ UNCHANGED <<text_edit, slow_checkbox, widgets, locals, trace, files,
                   music, timers, delSched>>

\* EnterKeyTextEdit.keyPressEvent, lines 22-25 and 30: Shift+Enter
KeyShiftEnter ==
    /\ pc = "key"
    /\ event.key \in {"Return", "Enter"}
    /\ "Shift" \in event.mods
    /\ text_edit' = InsertNewline(text_edit)
    /\ pc' = "ready"
    /\ event' = NoEvent
    /\ UNCHANGED <<slow_checkbox, widgets, locals, trace, files, music,
                   timers, delSched>>

\* Enter alone without the return of line 30: the default handling runs too
KeyEnterFallsThrough ==
    /\ pc = "key"
    /\ event.key \in {"Return", "Enter"}
    /\ "Shift" \notin event.mods
    /\ EnterHandler
    /\ event' = NoEvent
    /\ text_edit' = DefaultKey(text_edit, event.key)
    /\ UNCHANGED <<slow_checkbox, widgets, files, music, timers, delSched>>

\* lines 22-23 and 26-30: Enter alone calls on_enter_pressed, which
\* line 109 sets to text_to_speech
KeyEnter ==
    /\ pc = "key"
    /\ event.key \in {"Return", "Enter"}
    /\ "Shift" \notin event.mods
    /\ EnterHandler
    /\ event' = NoEvent
    /\ UNCHANGED <<text_edit, slow_checkbox, widgets, files, music, timers, delSched>>

\* line 31: every other key goes to QTextEdit.keyPressEvent
KeyOther ==
    /\ pc = "key"
    /\ event.key \notin {"Return", "Enter"}
    /\ text_edit' = DefaultKey(text_edit, event.key)
    /\ pc' = "ready"
    /\ event' = NoEvent
    /\ UNCHANGED <<slow_checkbox, widgets, locals, trace, files, music,
                   timers, delSched>>

\* the user toggles the slow checkbox
ToggleSlow ==
    /\ pc = "ready"
    /\ slow_checkbox' = ~slow_checkbox
    /\ UNCHANGED <<text_edit, widgets, pc, locals, trace, files, music,
                   timers, delSched, event>>

\* lines 153-154: if not text: return
ReturnEmpty ==
    /\ pc = "check"
    /\ locals.text = <<>>
    /\ pc' = "ready"
    /\ locals' = NoLocals
    /\ UNCHANGED <<text_edit, slow_checkbox, widgets, trace, files, music, timers, delSched, event>>

\* lines 156-158: disable the button, start the animation, set the status;
\* starting a stopped animation writes its start value through set_opacity
\* (lines 70-85), starting a running one does nothing
Begin ==
    /\ pc = "check"
    /\ locals.text # <<>>
    /\ button_disabled' = TRUE
    /\ animating' = TRUE
    /\ style' = IF animating THEN style ELSE "pulse"
    /\ status' = "speaking"
    /\ trace' = trace \o <<"disable", "animate", "status">>
    /\ pc' = "construct"
    /\ UNCHANGED <<text_edit, slow_checkbox, locals, files, music, timers, delSched, event>>

\* what a step of the handler leaves alone besides pc, locals and trace
HandlerFrame == <<text_edit, slow_checkbox, event>>

\* the request built with slow=False whatever the checkbox says
NewTtsNormalSpeed(text, slow) == [text |-> text, lang |-> "de", slow |-> FALSE]

\* line 165: tts = gTTS(text=text, lang='de', slow=slow_checked)
NewTts(text, slow) == [text |-> text, lang |-> "de", slow |-> slow]

Construct ==
    /\ pc = "construct"
    /\ locals' = [locals EXCEPT !.tts = NewTts(locals.text, locals.slow_checked)]
    /\ trace' = Append(trace, "synth")
    /\ pc' = "mktemp"
    /\ UNCHANGED <<HandlerFrame, widgets, files, music, timers, delSched>>

\* line 165 raises: nothing after it runs
ConstructFail ==
    /\ pc = "construct"
    /\ pc' = "raise"
    /\ UNCHANGED <<HandlerFrame, widgets, locals, trace, files, music, timers, delSched>>

\* lines 166-167: a new, uniquely named, empty scratch file
MkTemp ==
    /\ pc = "mktemp"
    /\ locals' = [locals EXCEPT !.temp_path = FreshPath]
    /\ files' = files \cup {FreshPath}
    /\ trace' = Append(trace, "mktemp")
    /\ pc' = "save"
    /\ UNCHANGED <<HandlerFrame, widgets, music, timers,
                   delSched>>

\* line 166 raises: no file was created and the try block is not entered
MkTempFail ==
    /\ pc = "mktemp"
    /\ pc' = "raise"
    /\ UNCHANGED <<HandlerFrame, widgets, locals, trace, files, music, timers, delSched>>

\* an exception inside the try block: control passes to the finally clause
ToFinally ==
    /\ locals' = [locals EXCEPT !.raising = TRUE]
    /\ pc' = "finally"

\* line 175: tts.save(temp_path) fetches the audio and writes it to the file;
\* saved_us is the decoded length of what the file of this call now holds
Save ==
    /\ pc = "save"
    /\ \E len \in AudioLengthsUs : locals' = [locals EXCEPT !.saved_us = len]
    /\ trace' = Append(trace, "save")
    /\ pc' = "load"
    /\ UNCHANGED <<HandlerFrame, widgets, files, music, timers, delSched>>

SaveFail ==
    /\ pc = "save"
    /\ ToFinally
    /\ UNCHANGED <<HandlerFrame, widgets, trace, files, music, timers,
                   delSched>>

\* line 176: pygame.mixer.music.load(temp_path) replaces the loaded music;
\* whatever was playing stops
Load ==
    /\ pc = "load"
    /\ music' = NoMusic
    /\ trace' = Append(trace, "load")
    /\ pc' = "play"
    /\ UNCHANGED <<HandlerFrame, widgets, locals, files, timers, delSched>>

\* line 176 raises: the music loaded before is kept
LoadFail ==
    /\ pc = "load"
    /\ ToFinally
    /\ UNCHANGED <<HandlerFrame, widgets, trace, files, music, timers, delSched>>

\* line 177: pygame.mixer.music.play()
Play ==
    /\ pc = "play"
    /\ music' = [req |-> locals.temp_path, left |-> locals.saved_us]
    /\ trace' = Append(trace, "play")
    /\ pc' = "duration"
    /\ UNCHANGED <<HandlerFrame, widgets, locals, files, timers, delSched>>

PlayFail ==
    /\ pc = "play"
    /\ ToFinally
    /\ UNCHANGED <<HandlerFrame, widgets, trace, files, music, timers,
                   delSched>>

\* line 180: the duration measured from the scratch file
Duration ==
    /\ pc = "duration"
    /\ locals' = [locals EXCEPT !.duration_ms = DurationMs(locals.saved_us)]
    /\ trace' = Append(trace, "duration")
    /\ pc' = "sched_done"
    /\ UNCHANGED <<HandlerFrame, widgets, files, music, timers, delSched>>

DurationFail ==
    /\ pc = "duration"
    /\ ToFinally
    /\ UNCHANGED <<HandlerFrame, widgets, trace, files, music, timers,
                   delSched>>

\* line 181: QTimer.singleShot(duration_ms, done_speaking)
SchedDone ==
    /\ pc = "sched_done"
    /\ timers' = timers \cup {DoneTimer(locals.temp_path, locals.duration_ms)}
    /\ trace' = Append(trace, "sched_done")
    /\ pc' = "finally"
    /\ UNCHANGED <<HandlerFrame, widgets, locals, files, music, delSched>>

\* the deletion scheduled in an else clause: on the successful path only
FinallyOnSuccessOnly ==
    /\ pc = "finally"
    /\ IF locals.raising
       THEN pc' = "raise" /\ UNCHANGED <<timers, delSched, trace>>
       ELSE /\ timers' = timers \cup {RemoveTimer(locals.temp_path)}
            /\ delSched' = [delSched EXCEPT ![locals.temp_path] = @ + 1]
            /\ trace' = Append(trace, "sched_remove")
            /\ pc' = "return"
    /\ UNCHANGED <<HandlerFrame, widgets, locals, files, music>>

\* lines 183-185: the deletion is scheduled on every path out of the try
\* block; then the handler returns, or the pending exception leaves it
Finally ==
    /\ pc = "finally"
    /\ timers' = timers \cup {RemoveTimer(locals.temp_path)}
    /\ delSched' = [delSched EXCEPT ![locals.temp_path] = @ + 1]
    /\ trace' = Append(trace, "sched_remove")
    /\ IF locals.raising
       THEN pc' = "raise"
       ELSE pc' = "return"
    /\ UNCHANGED locals
    /\ UNCHANGED <<HandlerFrame, widgets, files, music>>

\* the handler returns to the event loop; its locals go out of scope
Return ==
    /\ pc = "return"
    /\ pc' = "ready"
    /\ locals' = NoLocals
    /\ trace' = <<>>
    /\ UNCHANGED <<HandlerFrame, widgets, files, music, timers, delSched>>

\* No handler of the program catches an exception and no excepthook is
\* installed, so what follows an exception that leaves a slot or a
\* reimplemented virtual is decided by the PyQt5 build: it aborts the process
UnhandledAbort ==
    /\ pc = "raise"
    /\ pc' = "aborted"
    /\ UNCHANGED <<text_edit, slow_checkbox, widgets, locals, trace, files,
                   music, timers, delSched, event>>

\* ... or it prints the traceback and the event loop goes on
UnhandledContinue ==
    /\ pc = "raise"
    /\ pc' = "ready"
    /\ locals' = NoLocals
    /\ trace' = <<>>
    /\ UNCHANGED <<text_edit, slow_checkbox, widgets, files, music, timers, delSched, event>>

\* --------------------------------------------------------------- timers
\* done_speaking without line 172: the status label keeps its text
FireDoneKeepsStatus(t) ==
    /\ pc = "ready"
    /\ t \in timers /\ t.kind = "done" /\ t.left = 0
    /\ timers' = timers \ {t}
    /\ button_disabled' = FALSE
    /\ animating' = FALSE
    /\ style' = "default"
    /\ UNCHANGED <<text_edit, slow_checkbox, status, pc, locals, trace, files,
                   music, delSched, event>>

\* lines 169-172: done_speaking, run by the timer of line 181;
\* stop_animation (lines 49-51) stops the animation and restores the style
FireDone(t) ==
    /\ pc = "ready"
    /\ t \in timers /\ t.kind = "done" /\ t.left = 0
    /\ timers' = timers \ {t}
    /\ button_disabled' = FALSE
    /\ animating' = FALSE
    /\ style' = "default"
    /\ status' = ""
    /\ UNCHANGED <<text_edit, slow_checkbox, pc, locals, trace, files, music,
                   delSched, event>>

\* the deletion held back until the completion callback of its request fired
FireRemoveAfterDone(t) ==
    /\ pc = "ready"
    /\ t \in timers /\ t.kind = "remove" /\ t.left = 0
    /\ \A u \in timers : u.kind = "done" => u.req # t.req
    /\ timers' = timers \ {t}
    /\ files' = files \ {t.req}
    /\ delSched' = [delSched EXCEPT ![t.req] = 0]
    /\ UNCHANGED <<text_edit, slow_checkbox, widgets, pc, locals, trace, music,
                   event>>

\* line 185: lambda: os.remove(temp_path); removing a missing file raises
FireRemove(t) ==
    /\ pc = "ready"
    /\ t \in timers /\ t.kind = "remove" /\ t.left = 0
    /\ timers' = timers \ {t}
    /\ IF RemoveTarget(t) \in files
       THEN /\ files' = files \ {RemoveTarget(t)}
            /\ delSched' = [delSched EXCEPT ![RemoveTarget(t)] = 0]
            /\ UNCHANGED pc
       ELSE /\ pc' = "raise"
            /\ UNCHANGED <<files, delSched>>
    /\ UNCHANGED <<text_edit, slow_checkbox, widgets, locals, trace, music,
                   event>>

\* set_opacity (lines 70-85): a frame of the running animation restyles the button
AnimFrame ==
    /\ pc = "ready"
    /\ animating
    /\ style' = "pulse"
    /\ UNCHANGED <<text_edit, slow_checkbox, button_disabled, animating, status,
                   pc, locals, trace, files, music, timers, delSched,
                   event>>

\* the time (ms) after which the playing music reaches its end
MusicLeftMs == (music.left + UsPerMs - 1) \div UsPerMs

\* the next instant at which a timer is due or the music ends
NextDue ==
    Min({t.left : t \in timers} \cup (IF music.left > 0 THEN {MusicLeftMs} ELSE {}))

\* time passes in the event loop until the next timer is due or the music
\* ends; the music that has reached its end stops
Tick ==
    /\ pc = "ready"
    /\ timers # {} \/ music.left > 0
    /\ \A t \in timers : t.left > 0
    /\ timers' = {[t EXCEPT !.left = @ - NextDue] : t \in timers}
    /\ music' = IF music.left > NextDue * UsPerMs
                THEN [music EXCEPT !.left = @ - NextDue * UsPerMs]
                ELSE NoMusic
    /\ UNCHANGED <<text_edit, slow_checkbox, widgets, pc, locals, trace, files,
                   delSched, event>>

Next ==
    \/ ClickSpeak
    \/ \E key \in Keys, mods \in SUBSET Modifiers : KeyEvent(key, mods)
    \/ KeyShiftEnter \/ KeyEnter \/ KeyOther
    \/ ToggleSlow
    \/ ReturnEmpty
    \/ Begin
    \/ Construct \/ ConstructFail
    \/ MkTemp \/ MkTempFail
    \/ Save \/ SaveFail
    \/ Load \/ LoadFail
    \/ Play \/ PlayFail
    \/ Duration \/ DurationFail
    \/ SchedDone
    \/ Finally \/ Return
    \/ UnhandledAbort \/ UnhandledContinue
    \/ \E t \in timers : FireDone(t)
    \/ \E t \in timers : FireRemove(t)
    \/ AnimFrame
    \/ Tick

Spec == Init /\ [][Next]_vars
\* ------------------------------------------------------------- claims
DoneTimers == {t \in timers : t.kind = "done"}
RemoveTimers == {t \in timers : t.kind = "remove"}

\* requests whose completion callback is scheduled and has not fired
InFlight == {t.req : t \in DoneTimers}

\* the request that is playing and whose measured duration has not elapsed
Speaking(t) == t \in DoneTimers /\ t.req = music.req /\ t.left > 0

\* the positions of a running text_to_speech call
TrySteps == {"save", "load", "play", "duration", "sched_done", "finally"}
HandlerSteps == {"construct", "mktemp"} \cup TrySteps \cup {"return"}

\* a text that is empty or holds whitespace only
IsBlank(s) == \A i \in 1..Len(s) : s[i] \in Whitespace

\* C1: between handlers at most one request is in flight, and the submit
\* control is disabled while one is.
C1_SingleInFlight ==
    pc = "ready" =>
        /\ Cardinality(InFlight) <= 1
        /\ InFlight # {} => button_disabled

\* C2: when a submit fails after the control was disabled, the control is
\* enabled when the exception leaves the handler, and between handlers a
\* disabled control always has a completion callback pending that will
\* enable it again.
C2_RestoredToIdle ==
    /\ pc = "raise" => ~button_disabled
    /\ (pc = "ready" /\ button_disabled) => DoneTimers # {}

\* C3: the handler of a non-empty submit disables the control itself, and
\* between handlers the control stays disabled until the measured duration
\* of the request that is playing has elapsed.
C3_IdleOnlyAfterDuration ==
    /\ pc \in HandlerSteps => button_disabled
    /\ pc = "ready" => \A t \in timers : Speaking(t) => button_disabled

\* C4: a submit whose text is empty or whitespace only returns at once and
\* changes no widget, file, timer or music, whatever the state.
C4_EmptySubmitNoOp ==
    [][(pc = "check" /\ IsBlank(text_edit)) =>
          /\ pc' = "ready"
          /\ trace' = <<>>
          /\ UNCHANGED <<text_edit, slow_checkbox, widgets, files, music,
                         timers, delSched>>]_vars

C4_Witness ==
    /\ pc = "check"
    /\ text_edit # <<>> /\ IsBlank(text_edit)
    /\ button_disabled
    /\ timers # {}

\* C5: no step replaces or stops the playback of a request whose measured
\* duration has not elapsed after the step.
C5_PlaybackNotReplaced ==
    [][\A t \in timers :
          (Speaking(t) /\ \E u \in timers' :
                             u.kind = "done" /\ u.req = t.req /\ u.left > 0)
              => music'.req = music.req]_vars

\* C6: Enter without Shift calls the submit callback once and leaves the
\* text alone; Shift+Enter appends one newline and does not submit; every
\* other key gets the default handling and does not submit.
C6_KeyRouting ==
    [][pc = "key" =>
          IF event.key \in {"Return", "Enter"}
          THEN IF "Shift" \in event.mods
               THEN text_edit' = Append(text_edit, "\n") /\ pc' = "ready"
               ELSE text_edit' = text_edit /\ pc' = "check"
          ELSE text_edit' = DefaultKey(text_edit, event.key) /\ pc' = "ready"]_vars

C6_Witness ==
    /\ pc = "check"
    /\ text_edit = <<"a", "\n">>
    /\ locals.text = <<"a">>

\* the effects C7 orders, as the handler logs them
ClaimedOrder ==
    <<"disable", "animate", "status", "synth", "save", "play", "sched_done",
      "sched_remove">>

IsClaimed(e) == \E i \in 1..Len(ClaimedOrder) : ClaimedOrder[i] = e

\* C7: a successful submit has its effects in the claimed order, the
\* synthesis request carries the trimmed text, 'de' and the checkbox's
\* flag, and a completion callback exists only for a started playback.
C7_EffectOrder ==
    /\ pc = "return" => SelectSeq(trace, IsClaimed) = ClaimedOrder
    /\ pc \in HandlerSteps \ {"construct"} =>
           locals.tts = [text |-> Strip(text_edit), lang |-> "de",
                         slow |-> slow_checkbox]
    /\ \A t \in DoneTimers : pc \in HandlerSteps /\ t.req = locals.temp_path =>
           \E i, j \in 1..Len(trace) :
               i < j /\ trace[i] = "play" /\ trace[j] = "sched_done"

C7_Witness ==
    /\ pc = "return"
    /\ Len(locals.text) < Len(text_edit)
    /\ ~locals.tts.slow
    /\ DoneTimer(locals.temp_path, locals.duration_ms) \in timers

\* C8: a deletion is due 1500 ms after it is scheduled and a completion
\* callback after the measured duration; a due task can fire whatever the
\* other task does; no step cancels or postpones a task; so once more than
\* 1500 ms of a duration have elapsed the file is gone.
C8_IndependentTasks ==
    /\ [](\A t \in timers :
            /\ 0 <= t.left /\ t.left <= t.delay
            /\ t.kind = "remove" => t.delay = DeleteDelayMs
            /\ (pc = "ready" /\ t.left = 0) =>
                   IF t.kind = "done" THEN ENABLED FireDone(t)
                                      ELSE ENABLED FireRemove(t)
            /\ (t.kind = "done" /\ t.delay - t.left > DeleteDelayMs) =>
                   t.req \notin files)
    /\ [][\A t \in timers :
            \/ \E u \in timers' : /\ u.kind = t.kind /\ u.req = t.req
                                  /\ u.delay = t.delay /\ u.left <= t.left
            \/ t.left = 0 /\ timers' = timers \ {t}]_vars

C8_Witness ==
    \E t \in DoneTimers :
        /\ t.left > 0
        /\ t.req \notin files
        /\ t.req = music.req
        /\ button_disabled
        /\ RemoveTimers = {}

\* C9: outside the try block of its own call, every scratch file has had
\* exactly one deletion scheduled, which is pending and targets that
\* file only; every pending deletion targets an existing file.
C9_OneDeletionPerFile ==
    /\ \A f \in files :
           (pc \in TrySteps /\ f = locals.temp_path)
           \/ /\ delSched[f] = 1
              /\ Cardinality({t \in RemoveTimers : RemoveTarget(t) = f}) = 1
    /\ \A t \in RemoveTimers : RemoveTarget(t) = t.req /\ RemoveTarget(t) \in files

C9_Witness ==
    /\ pc = "raise"
    /\ Cardinality(files) = 2
    /\ locals.temp_path \in files

\* C10: between handlers the submit control is disabled iff the animation
\* runs iff the status shows the speaking indicator, a stopped animation
\* leaves the default style, and only the submit handler and a due
\* completion callback change any of the three.
C10_IndicatorsAgree ==
    /\ [](pc = "ready" =>
            /\ button_disabled <=> animating
            /\ animating <=> status = "speaking"
            /\ ~animating => style = "default")
    /\ [][<<button_disabled, animating, status>>' # <<button_disabled, animating, status>> =>
            \/ pc = "check" /\ ~IsBlank(text_edit)
            \/ \E t \in DoneTimers : t.left = 0 /\ t \notin timers']_vars

C10_Witness ==
    /\ pc = "ready"
    /\ ~button_disabled /\ ~animating /\ status = "" /\ style = "default"
    /\ DoneTimers = {} /\ RemoveTimers # {}
=============================================================================
